---------------------------- MODULE Spec2Model ----------------------------
(***************************************************************************)
(* A model of src/index.js: the Discord ticket bot.                        *)
(*                                                                         *)
(* The interaction handler, createTicket and the delayed close are async   *)
(* functions.  Each action below is one run of a handler from one          *)
(* suspension point (an awaited platform call returning) to the next one   *)
(* (the next platform call being issued), so that the runtime's            *)
(* interleaving of independent handlers is the interleaving of actions.    *)
(* The outcome of a platform call is chosen when the call returns.         *)
(***************************************************************************)
EXTENDS Integers, Sequences, FiniteSets, TLC

(* ------------------------------ bounds ------------------------------- *)

\* Events (interactions, prefix messages) delivered in one behaviour.
NumInteractions == 2

\* Calls of safeReply on one interaction.
MaxReplies == 2

\* Platform / file-system calls that the environment lets fail in one behaviour
\* (a call on a channel that no longer exists fails without counting).
MaxFailures == 1

\* Messages a ticket channel of an earlier run holds when the bot starts.
MaxHistory == 2

\* Role ids in config.handlersRole when it is a list.
MaxRoles == 2

(* ------------------------------ values ------------------------------- *)

None == "none"

\* String.prototype.toLowerCase on one token of a name.
LowerTok(t) ==
  CASE t = "A" -> "a"
    [] t = "B" -> "b"
    [] t = "Ticket-" -> "ticket-"
    [] OTHER -> t

\* String.prototype.toLowerCase: names are sequences of tokens.
RECURSIVE toLowerCase(_)
toLowerCase(s) ==
  IF s = << >> THEN << >> ELSE <<LowerTok(Head(s))>> \o toLowerCase(Tail(s))

\* The users that press buttons: id, username (tag is derived from username).
Users ==
  { [id |-> "u1", username |-> <<"A">>],
    [id |-> "u2", username |-> <<"a">>],
    [id |-> "u3", username |-> <<"b">>] }

\* interaction.values[0] of the ticket menu (setup_ticket's options).
MenuValues == {"support"}

\* config.logChannel when it is set (config.json, read at line 23).
LogChannelId == 1

\* m.author.tag and m.content of the messages users wrote into a ticket
\* channel; a message with only an embed or an attachment has the content "".
Tags == {"A#1", "b#3"}
Contents == {"", "hi"}

\* The limit of ch.messages.fetch({ limit: 100 }).
FetchLimit == 100

(* ------------------------------- state ------------------------------- *)

VARIABLES
  config,     \* config.json: [logChannel, admins, handlersRole, verifyRole];
              \* a logChannel of 0 is "not set"
  channels,   \* guild.channels.cache: id -> [name, messages (oldest first)]
  nextId,     \* the id the platform gives the next created channel
  files,      \* the file system: channel id -> text of transcript-<id>.txt
  inter,      \* the events (interactions, messages): i -> its handler's state
  failures    \* failures injected so far

vars == <<config, channels, nextId, files, inter, failures>>

Interactions == 1..NumInteractions

\* An interaction before the platform delivers it.
Undelivered ==
  [ pc |-> "idle", kind |-> None, user |-> [id |-> None, username |-> << >>],
    type |-> None, channel |-> 0, manage |-> FALSE, cmd |-> None, mention |-> FALSE,
    member |-> None, replied |-> FALSE, deferred |-> FALSE, calls |-> << >>,
    checked |-> FALSE, snap |-> << >>, overwrites |-> << >>, ch |-> 0,
    fired |-> FALSE, msgs |-> << >>, caught |-> 0, unhandled |-> FALSE ]

(* --------------------------- platform calls -------------------------- *)

\* A call is logged when it is issued, its result ("ok" / "fail") when it returns.
Call(op, arg) == [op |-> op, arg |-> arg, res |-> "pending"]

Issue(r, op, arg) == [r EXCEPT !.calls = Append(@, Call(op, arg))]

Settle(r, ok) ==
  [r EXCEPT !.calls[Len(r.calls)].res = IF ok THEN "ok" ELSE "fail"]

\* The outcomes the environment may give a call: success, or a failure
\* while the budget lasts.
Outcomes == {TRUE} \cup (IF failures < MaxFailures THEN {FALSE} ELSE {})

\* The outcomes of a call on channel c: it fails for certain once c is gone.
OutcomesOn(c) == IF c \in DOMAIN channels THEN Outcomes ELSE {FALSE}

\* The failure budget after a call on channel c ended with outcome ok.
Count(ok, c) ==
  failures' = IF ok \/ c \notin DOMAIN channels THEN failures ELSE failures + 1

\* f with key k mapped to v / with key k removed.
Put(f, k, v) == [x \in DOMAIN f \cup {k} |-> IF x = k THEN v ELSE f[x]]
Drop(f, k) == [x \in DOMAIN f \ {k} |-> f[x]]

(* ------------------------- unhandled rejections ---------------------- *)

\* What the runtime does with a rejected promise that nobody handles: it ends
\* the process ("throw", the default of Node 15 and later) or only warns,
\* depending on how the process was started.
UnhandledRejections == {"throw", "warn"}

\* The handlers after the runtime ended the process: every handler that had not
\* returned is lost, pending timers included, and no event is delivered any more.
crash(f) == [j \in DOMAIN f |-> [f[j] EXCEPT !.pc = IF @ = "done" THEN @ ELSE "lost"]]

\* Handler i reaches r; `rejected` tells that a promise of the handler was
\* rejected with no catch on it.
Unhandled(i, r, rejected) ==
  IF rejected
  THEN \E mode \in UnhandledRejections :
         LET f == [inter EXCEPT ![i] = [r EXCEPT !.unhandled = TRUE]]
         IN  inter' = IF mode = "throw" THEN crash(f) ELSE f
  ELSE inter' = [inter EXCEPT ![i] = r]

(* ------------------------------ utilities --------------------------- *)

\* The values config.admins may have: an array of ids, or something that is
\* no array (the key is missing, say).
Array(items) == [isArray |-> TRUE, items |-> items]
NoArray == [isArray |-> FALSE, items |-> << >>]

\* A configured value that is a single id (a string), and whether a configured
\* value is truthy: an array is, even an empty one; a missing key is not.
RoleId(id) == [isArray |-> FALSE, items |-> <<id>>]
truthy(v) == v.isArray \/ v.items # << >>

\* Mutant of isAdmin: the list is never consulted.
isAdmin_Never(id) == FALSE

\* isAdmin(id): config.admins.includes(String(id)); false without a list.
isAdmin(id) ==
  IF ~config.admins.isArray THEN FALSE
  ELSE \E k \in 1..Len(config.admins.items) : config.admins.items[k] = id

\* safeReply up to its await: editReply once the interaction is replied or
\* deferred, reply otherwise.
safeReply(r, options) ==
  IF r.replied \/ r.deferred
  THEN [Issue(r, "editReply", options) EXCEPT !.pc = "safe_edit"]
  ELSE [Issue(r, "reply", options) EXCEPT !.pc = "safe_reply"]

(* ----------------------------- createTicket -------------------------- *)

\* Mutant of ticketName: the name is not lowercased.
ticketName_NotLowered(user) == <<"ticket-">> \o user.username

\* `ticket-${user.username}`.toLowerCase(): the name createTicket gives the channel.
ticketName(user) == toLowerCase(<<"ticket-">> \o user.username)

\* Mutant of findExisting: the channel's name is compared as it is.
findExisting_CaseSensitive(chs, user) ==
  { c \in DOMAIN chs : chs[c].name = <<"ticket-">> \o toLowerCase(user.username) }

\* Mutant of findExisting: the username is not lowercased.
findExisting_RawUsername(chs, user) ==
  { c \in DOMAIN chs : toLowerCase(chs[c].name) = <<"ticket-">> \o user.username }

\* Mutant of findExisting: any channel whose name starts with "ticket-" matches.
findExisting_AnyTicket(chs, user) ==
  { c \in DOMAIN chs :
      chs[c].name # << >> /\ toLowerCase(<<Head(chs[c].name)>>) = <<"ticket-">> }

\* The channels guild.channels.cache.find may return: those whose lowercased
\* name is `ticket-${user.username.toLowerCase()}`.
findExisting(chs, user) ==
  { c \in DOMAIN chs :
      toLowerCase(chs[c].name) = <<"ticket-">> \o toLowerCase(user.username) }

\* One element of opts.permissionOverwrites.  An id is held as the sequence of
\* the id strings it is made of: <<s>> for the string s, << >> for an empty array.
Overwrite(id, allowed) ==
  [ id |-> id,
    allow |-> IF allowed THEN {"ViewChannel", "SendMessages"} ELSE {},
    deny |-> IF allowed THEN {} ELSE {"ViewChannel"} ]

\* opts.permissionOverwrites: the guild is denied, the user is allowed, then
\* one entry per element of config.handlersRole when that is a non-empty array,
\* else one entry whose id is config.handlersRole itself when that is truthy.
permissionOverwrites(user) ==
  LET base == << Overwrite(<<"guild">>, FALSE), Overwrite(<<user.id>>, TRUE) >>
      roles == config.handlersRole
  IN  IF roles.isArray /\ Len(roles.items) # 0
      THEN base \o [k \in 1..Len(roles.items) |-> Overwrite(<<roles.items[k]>>, TRUE)]
      ELSE IF truthy(roles)
      THEN Append(base, Overwrite(roles.items, TRUE))
      ELSE base

\* Mutant of createTicket: the duplicate check is skipped.
createTicket_NoCheck(r, type) ==
  { [Issue([r EXCEPT !.type = type, !.checked = TRUE,
                     !.snap = [c \in DOMAIN channels |-> channels[c].name],
                     !.overwrites = permissionOverwrites(r.user)],
           "create", ticketName(r.user)) EXCEPT !.pc = "create"] }

\* createTicket from its entry to its first await: the duplicate check, then
\* either the edit naming the existing channel or guild.channels.create.
createTicket(r, type) ==
  LET r1 == [r EXCEPT !.type = type, !.checked = TRUE,
                      !.snap = [c \in DOMAIN channels |-> channels[c].name]]
      found == findExisting(channels, r.user)
  IN  IF found # {}
      THEN { [Issue(r1, "editReply", <<"existing", e>>) EXCEPT !.pc = "edit"] :
               e \in found }
      ELSE { [Issue([r1 EXCEPT !.overwrites = permissionOverwrites(r.user)],
                    "create", ticketName(r.user)) EXCEPT !.pc = "create"] }

\* createTicket's catch block: the interaction was deferred by the caller, so
\* the failure message goes out as an edit; otherwise as a reply.
createTicketCatch(r) ==
  IF ~r.replied /\ ~r.deferred
  THEN [Issue(r, "reply", <<"error_ticket">>) EXCEPT !.pc = "edit"]
  ELSE [Issue(r, "editReply", <<"error_ticket">>) EXCEPT !.pc = "edit"]

\* Mutant of handlerCatch: the generic reply goes out whatever the state.
handlerCatch_AlwaysReplies(r) ==
  [Issue(r, "reply", <<"error">>) EXCEPT !.pc = "catch_reply", !.caught = Len(r.calls)]

\* The handler's catch block: a generic reply if nothing was acknowledged yet.
\* `caught` keeps the number of calls issued before the catch block ran.
handlerCatch(r) ==
  IF ~r.replied /\ ~r.deferred
  THEN [Issue(r, "reply", <<"error">>) EXCEPT !.pc = "catch_reply",
                                              !.caught = Len(r.calls)]
  ELSE [r EXCEPT !.pc = "done", !.caught = Len(r.calls)]

(* ------------------------------ transcript --------------------------- *)

\* new Date(m.createdTimestamp).toISOString()
toISOString(ts) == <<"iso", ts>>

\* One element of msgs.map(...):
\* `[${iso}] ${m.author.tag}: ${m.content || '[embed/attachment]'}`
line(m) ==
  [ stamp |-> toISOString(m.createdTimestamp), author |-> m.tag,
    text |-> IF m.content # "" THEN m.content ELSE "[embed/attachment]" ]

\* Array.prototype.reverse
RECURSIVE reverse(_)
reverse(s) == IF s = << >> THEN << >> ELSE Append(reverse(Tail(s)), Head(s))

\* Mutant of transcript: the lines are not reversed.
transcript_NotReversed(msgs) == [k \in 1..Len(msgs) |-> line(msgs[k])]

\* msgs.map(line).reverse().join('\n'): the text written to transcript-<id>.txt,
\* as the sequence of its lines.
transcript(msgs) == reverse([k \in 1..Len(msgs) |-> line(msgs[k])])

\* ch.messages.fetch({ limit }): the newest `limit` messages, newest first.
fetch(history, limit) ==
  LET n == Len(history)
      first == IF n > limit THEN n - limit + 1 ELSE 1
  IN  reverse(SubSeq(history, first, n))

\* A message somebody wrote into a channel.
Message(ts, tag, content, closeRow) ==
  [createdTimestamp |-> ts, tag |-> tag, content |-> content, closeRow |-> closeRow]

\* The intro message createTicket posts: the mention, the embed and the row
\* with the close button.
intro(history, user) == Message(Len(history) + 1, "bot#0", "<@user>", TRUE)

\* Whether channel c shows a close button.
button(c) == \E k \in 1..Len(channels[c].messages) : channels[c].messages[k].closeRow

(* ------------------------------ the actions -------------------------- *)

\* The platform delivers interactions one after another.
Fresh(i) ==
  /\ inter[i].pc = "idle"
  /\ \A j \in Interactions : j < i => inter[j].pc # "idle"

\* A menu selection or a press of the ticket button arrives: the handler
\* issues deferReply.  The two differ in the reason they hand to createTicket,
\* which only goes into the embed of the intro message; every user presses the
\* button, one of them also uses the menu.
OpenTicketPressed(i) ==
  /\ Fresh(i)
  /\ \E u \in Users, k \in {"ticket_menu", "ticket_button"} :
       \E t \in IF k = "ticket_menu" THEN MenuValues ELSE {None} :
         /\ k = "ticket_menu" => u.id = "u3"
         /\ inter' = [inter EXCEPT ![i] =
                        [Issue(@, "deferReply", << >>) EXCEPT
                           !.pc = "defer", !.kind = k, !.user = u, !.type = t]]
  /\ UNCHANGED <<config, channels, nextId, files, failures>>

\* A press of the close button of a ticket channel arrives.  Who pressed it
\* only goes into the note sent with the transcript: the user whose name the
\* channel carries stands for everybody the channel is visible to.
CloseTicketPressed(i) ==
  /\ Fresh(i)
  /\ \E c \in {c \in DOMAIN channels : button(c)} :
     \E u \in {u \in Users : <<"ticket-">> \o u.username = toLowerCase(channels[c].name)} :
       inter' = [inter EXCEPT ![i] =
                   [Issue(@, "deferReply", << >>) EXCEPT
                      !.pc = "defer", !.kind = "close_ticket", !.user = u,
                      !.channel = c]]
  /\ UNCHANGED <<config, channels, nextId, files, failures>>

\* Mutant of scheduleClose: the channel is deleted at once, without a timer.
scheduleClose_NoDelay(r) == [Issue(r, "delete", << >>) EXCEPT !.pc = "delete_catch"]

\* What the close handler does once the notice edit has settled: it schedules
\* the delayed close and returns.
scheduleClose(r) == [r EXCEPT !.pc = "timer"]

\* The verify button after its deferReply: without a configured role, or for a
\* member who has the role, an edit says so (its promise is returned); else the
\* role is added.  interaction.member is a raw API member when the guild is not
\* cached: member.roles is then an array, member.roles.cache is undefined and
\* reading .has of it throws.
verify(r) ==
  IF config.verifyRole = None
  THEN [Issue(r, "editReply", <<"no_role">>) EXCEPT !.pc = "edit"]
  ELSE IF r.member = "raw" THEN handlerCatch(r)
  ELSE IF r.member = "verified"
  THEN [Issue(r, "editReply", <<"already">>) EXCEPT !.pc = "edit"]
  ELSE [Issue(r, "roles.add", <<config.verifyRole>>) EXCEPT !.pc = "roles"]

\* The handler after its deferReply succeeded, up to its next await.
afterDefer(r) ==
  CASE r.kind = "ticket_menu" -> createTicket(r, r.type)
    [] r.kind = "ticket_button" -> createTicket(r, "general")
    [] r.kind = "close_ticket" ->
         { [Issue(r, "editReply", <<"closing">>) EXCEPT !.pc = "notice"] }
    [] r.kind = "verify_button" -> { verify(r) }

\* await interaction.deferReply(...) returns.
DeferReplyReturns(i) ==
  /\ inter[i].pc = "defer"
  /\ \E ok \in Outcomes :
       /\ failures' = IF ok THEN failures ELSE failures + 1
       /\ LET r == Settle(inter[i], ok) IN
            IF ok
            THEN \E r2 \in afterDefer([r EXCEPT !.deferred = TRUE]) :
                   inter' = [inter EXCEPT ![i] = r2]
            ELSE inter' = [inter EXCEPT ![i] = handlerCatch(r)]
  /\ UNCHANGED <<config, channels, nextId, files>>

\* await guild.channels.create(opts) returns: the channel, then ch.send of the
\* intro message; or the catch block.
ChannelsCreateReturns(i) ==
  /\ inter[i].pc = "create"
  /\ \E ok \in Outcomes :
       /\ failures' = IF ok THEN failures ELSE failures + 1
       /\ LET r == Settle(inter[i], ok) IN
            IF ok
            THEN /\ channels' = Put(channels, nextId,
                                    [name |-> r.calls[Len(r.calls)].arg, messages |-> << >>])
                 /\ nextId' = nextId + 1
                 /\ inter' = [inter EXCEPT ![i] =
                       [Issue([r EXCEPT !.ch = nextId], "send", <<"intro", r.type>>)
                          EXCEPT !.pc = "send"]]
            ELSE /\ inter' = [inter EXCEPT ![i] = createTicketCatch(r)]
                 /\ UNCHANGED <<channels, nextId>>
  /\ UNCHANGED <<config, files>>

\* Whether the log channel is configured and in the cache.
logChannel == config.logChannel # 0 /\ config.logChannel \in DOMAIN channels

\* Mutant of ChSendReturns: a failed intro post rolls the channel back.
ChSendReturns_Rollback(i) ==
  /\ inter[i].pc = "send"
  /\ \E ok \in OutcomesOn(inter[i].ch) :
       LET r == Settle(inter[i], ok) IN
         /\ Count(ok, r.ch)
         /\ IF ok
            THEN /\ channels' = [channels EXCEPT ![r.ch].messages =
                                        Append(@, intro(@, r.user))]
                 /\ inter' = [inter EXCEPT ![i] =
                       [Issue(r, "editReply", <<"created", r.ch>>) EXCEPT !.pc = "edit"]]
            ELSE /\ channels' = Drop(channels, r.ch)
                 /\ inter' = [inter EXCEPT ![i] = createTicketCatch(r)]
  /\ UNCHANGED <<config, nextId, files>>

\* await ch.send(intro) returns: the log line is sent without being awaited
\* and without a catch, then the success edit is issued; or the catch block.
\* The outcome of the log line is nobody's to read: it is drawn here.
ChSendReturns(i) ==
  /\ inter[i].pc = "send"
  /\ \E ok \in OutcomesOn(inter[i].ch) :
       LET r == Settle(inter[i], ok)
           edit(q) == [Issue(q, "editReply", <<"created", r.ch>>) EXCEPT !.pc = "edit"]
       IN  IF ~ok
           THEN /\ Count(ok, r.ch)
                /\ inter' = [inter EXCEPT ![i] = createTicketCatch(r)]
                /\ UNCHANGED channels
           ELSE /\ channels' = [channels EXCEPT ![r.ch].messages =
                                       Append(@, intro(@, r.user))]
                /\ IF logChannel
                   THEN \E sent \in Outcomes :
                          /\ failures' = IF sent THEN failures ELSE failures + 1
                          /\ Unhandled(i,
                               edit([r EXCEPT !.calls =
                                       Append(@, [op |-> "log.send", arg |-> <<"new", r.ch>>,
                                                  res |-> IF sent THEN "ok" ELSE "fail"])]),
                               ~sent)
                   ELSE /\ UNCHANGED failures
                        /\ inter' = [inter EXCEPT ![i] = edit(r)]
  /\ UNCHANGED <<config, nextId, files>>

\* A promise a handler returned without awaiting it settles: the last
\* editReply / reply of createTicket, the reply of ping and guess, or the
\* "mention somebody" reply of ban and kick.  A rejection is caught by no try
\* block.
EditReplyReturns(i) ==
  /\ inter[i].pc = "edit"
  /\ \E ok \in Outcomes :
       /\ failures' = IF ok THEN failures ELSE failures + 1
       /\ Unhandled(i, [Settle(inter[i], ok) EXCEPT
                           !.pc = "done", !.replied = IF ok THEN TRUE ELSE @], ~ok)
  /\ UNCHANGED <<config, channels, nextId, files>>

\* The reply of the handler's catch block settles; its failure is swallowed.
CatchReplyReturns(i) ==
  /\ inter[i].pc = "catch_reply"
  /\ \E ok \in Outcomes :
       /\ failures' = IF ok THEN failures ELSE failures + 1
       /\ inter' = [inter EXCEPT ![i] =
             [Settle(@, ok) EXCEPT !.pc = "done",
                                   !.replied = IF ok THEN TRUE ELSE @]]
  /\ UNCHANGED <<config, channels, nextId, files>>

(* --------------------------- the delayed close ----------------------- *)

\* await interaction.editReply(notice).catch(() => {}) returns: whatever the
\* outcome, setTimeout schedules the close and the handler returns.
NoticeReturns(i) ==
  /\ inter[i].pc = "notice"
  /\ \E ok \in Outcomes :
       /\ failures' = IF ok THEN failures ELSE failures + 1
       /\ inter' = [inter EXCEPT ![i] =
             scheduleClose([Settle(@, ok) EXCEPT !.replied = IF ok THEN TRUE ELSE @])]
  /\ UNCHANGED <<config, channels, nextId, files>>

\* The 5000 ms timer fires: the callback issues ch.messages.fetch.
TimerFires(i) ==
  /\ inter[i].pc = "timer"
  /\ inter' = [inter EXCEPT ![i] =
        [Issue([@ EXCEPT !.fired = TRUE], "fetch", << >>) EXCEPT !.pc = "fetch"]]
  /\ UNCHANGED <<config, channels, nextId, files, failures>>

\* Mutant of closeCatch: the catch block gives up without deleting.
closeCatch_NoDelete(r) == [r EXCEPT !.pc = "done", !.msgs = << >>]

\* The callback's catch block: "try still to delete channel".
closeCatch(r) == [Issue(r, "delete", << >>) EXCEPT !.pc = "delete_catch", !.msgs = << >>]

\* The callback after the transcript file was written, up to its next await:
\* the transcript goes to the log channel if there is one, else ch.delete.
afterWrite(r) ==
  IF logChannel
  THEN [Issue(r, "logCh.send", <<"transcript", r.channel>>) EXCEPT !.pc = "logsend"]
  ELSE [Issue(r, "delete", << >>) EXCEPT !.pc = "delete"]

\* await ch.messages.fetch returns: the transcript is built and written
\* (writeFileSync may throw), or the catch block runs.
FetchReturns(i) ==
  /\ inter[i].pc = "fetch"
  /\ \E ok \in OutcomesOn(inter[i].channel) :
       LET r == Settle(inter[i], ok) IN
         IF ~ok
         THEN /\ Count(ok, r.channel)
              /\ inter' = [inter EXCEPT ![i] = closeCatch(r)]
              /\ UNCHANGED files
         ELSE \E written \in Outcomes :
              LET msgs == fetch(channels[r.channel].messages, FetchLimit) IN
                /\ failures' = IF written THEN failures ELSE failures + 1
                /\ IF written
                   THEN /\ files' = Put(files, r.channel, transcript(msgs))
                        /\ inter' = [inter EXCEPT ![i] =
                                       afterWrite([r EXCEPT !.msgs = msgs])]
                   ELSE /\ inter' = [inter EXCEPT ![i] = closeCatch(r)]
                        /\ UNCHANGED files
  /\ UNCHANGED <<config, channels, nextId>>

\* await logCh.send(...).catch(() => {}) returns: ch.delete is issued.
LogSendReturns(i) ==
  /\ inter[i].pc = "logsend"
  /\ \E ok \in Outcomes :
       /\ failures' = IF ok THEN failures ELSE failures + 1
       /\ inter' = [inter EXCEPT ![i] =
             [Issue(Settle(@, ok), "delete", << >>) EXCEPT !.pc = "delete"]]
  /\ UNCHANGED <<config, channels, nextId, files>>

\* fs.unlinkSync(filename) in the call log: whether the file was there, and
\* whether the call returned or threw.
unlinkSync(r, ok) ==
  [r EXCEPT !.calls =
     Append(@, [op |-> "unlinkSync",
                arg |-> IF r.channel \in DOMAIN files THEN <<"present">> ELSE <<"absent">>,
                res |-> IF ok THEN "ok" ELSE "fail"])]

\* Mutant of DeleteReturns: the transcript file is not removed.
DeleteReturns_NoUnlink(i) ==
  /\ inter[i].pc = "delete"
  /\ \E ok \in OutcomesOn(inter[i].channel) :
       /\ Count(ok, inter[i].channel)
       /\ channels' = IF ok THEN Drop(channels, inter[i].channel) ELSE channels
       /\ inter' = [inter EXCEPT ![i] =
             [Settle(@, ok) EXCEPT !.pc = "done", !.msgs = << >>]]
  /\ UNCHANGED <<config, nextId, files>>

\* await ch.delete().catch(() => {}) of the try block returns; then
\* fs.unlinkSync(filename), which throws when the file is not there (or the
\* file system refuses) and so reaches the catch block.
DeleteReturns(i) ==
  /\ inter[i].pc = "delete"
  /\ \E ok \in OutcomesOn(inter[i].channel) :
       LET r == Settle(inter[i], ok)
           c == r.channel
           injected == IF ok \/ c \notin DOMAIN channels THEN 0 ELSE 1
       IN  /\ channels' = IF ok THEN Drop(channels, c) ELSE channels
           /\ \E unlinked \in IF c \in DOMAIN files
                               THEN {TRUE} \cup (IF failures + injected < MaxFailures
                                                 THEN {FALSE} ELSE {})
                               ELSE {FALSE} :
                /\ failures' = failures + injected
                                 + (IF unlinked \/ c \notin DOMAIN files THEN 0 ELSE 1)
                /\ IF unlinked
                   THEN /\ files' = Drop(files, c)
                        /\ inter' = [inter EXCEPT ![i] =
                                       [unlinkSync(r, TRUE) EXCEPT !.pc = "done",
                                                                   !.msgs = << >>]]
                   ELSE /\ inter' = [inter EXCEPT ![i] = closeCatch(unlinkSync(r, FALSE))]
                        /\ UNCHANGED files
  /\ UNCHANGED <<config, nextId>>

\* await ch.delete().catch(() => {}) of the catch block returns.
DeleteCatchReturns(i) ==
  /\ inter[i].pc = "delete_catch"
  /\ \E ok \in OutcomesOn(inter[i].channel) :
       /\ Count(ok, inter[i].channel)
       /\ channels' = IF ok THEN Drop(channels, inter[i].channel) ELSE channels
       /\ inter' = [inter EXCEPT ![i] = [Settle(@, ok) EXCEPT !.pc = "done"]]
  /\ UNCHANGED <<config, nextId, files>>

(* --------------------------- the specification ----------------------- *)

\* The histories a ticket channel of an earlier run may hold: the intro
\* message with its close button, then at most MaxHistory messages of users.
RECURSIVE Histories(_)
Histories(n) ==
  IF n = 0 THEN { <<Message(1, "bot#0", "<@user>", TRUE)>> }
  ELSE Histories(n - 1) \cup
       { Append(h, Message(Len(h) + 1, t, c, FALSE)) :
           h \in {h \in Histories(n - 1) : Len(h) = n}, t \in Tags, c \in Contents }

\* The guild when the bot starts: the log channel and one more channel: the
\* ticket of user "a" from an earlier run, or a channel (a category, say)
\* whose name matches the ticket name of user "b" only when lowercased.
InitialChannels ==
  LET base == [c \in {LogChannelId} |-> [name |-> <<"logs">>, messages |-> << >>]]
  IN  { Put(base, 2, [name |-> <<"ticket-", "a">>,
                      messages |-> <<Message(1, "bot#0", "<@user>", TRUE),
                                     Message(2, "A#1", "", FALSE)>>]),
        Put(base, 2, [name |-> <<"Ticket-", "B">>, messages |-> << >>]) }

\* config.json and the guild at startup; the configuration without a log
\* channel is explored from the guild that holds the earlier ticket.
Init ==
  /\ config \in {[logChannel |-> l, admins |-> Array(<<"u1">>),
                  handlersRole |-> NoArray, verifyRole |-> None] :
                   l \in {0, LogChannelId}}
  /\ channels \in InitialChannels
  /\ config.logChannel = 0 => button(2)
  /\ nextId = 3
  /\ files = << >>
  /\ inter = [i \in Interactions |-> Undelivered]
  /\ failures = 0

Next ==
  \E i \in Interactions :
    \/ OpenTicketPressed(i)
    \/ CloseTicketPressed(i)
    \/ DeferReplyReturns(i)
    \/ ChannelsCreateReturns(i)
    \/ ChSendReturns(i)
    \/ EditReplyReturns(i)
    \/ CatchReplyReturns(i)
    \/ NoticeReturns(i)
    \/ TimerFires(i)
    \/ FetchReturns(i)
    \/ LogSendReturns(i)
    \/ DeleteReturns(i)
    \/ DeleteCatchReturns(i)

Spec == Init /\ [][Next]_vars

(* ------------------ slash commands and prefix commands -------------- *)

\* Who calls: a user, with or without the ManageGuild permission.
Callers == {u \in Users : u.id \in {"u1", "u3"}} \X BOOLEAN

\* The gate of setup_ticket and verify_setup: the caller passes with the
\* ManageGuild permission or as a configured admin.
gate(manage, id) == ~(~manage /\ ~isAdmin(id))

\* `allow` of the prefix commands.
allow(manage, id) == isAdmin(id) \/ manage

\* A slash command arrives; the handler runs up to its first platform call.
\* ping and guess return their reply's promise; the two setup commands await
\* the denial, or the acknowledgement that precedes the panel.
CommandReceived(i) ==
  /\ Fresh(i)
  /\ \E name \in {"ping", "guess", "setup_ticket", "verify_setup"}, who \in Callers :
       \* ping and guess do not read the caller's permissions
       /\ name \in {"ping", "guess"} => ~who[2]
       /\ LET r == [inter[i] EXCEPT !.kind = name, !.user = who[1],
                                    !.manage = who[2], !.channel = 2]
          IN  IF name = "ping"
              THEN inter' = [inter EXCEPT ![i] =
                               [Issue(r, "reply", <<"pong">>) EXCEPT !.pc = "edit"]]
              ELSE IF name = "guess"
              THEN \E right \in BOOLEAN :
                     inter' = [inter EXCEPT ![i] =
                        [Issue(r, "reply", <<IF right THEN "right" ELSE "wrong">>)
                           EXCEPT !.pc = "edit"]]
              ELSE IF ~gate(r.manage, r.user.id)
              THEN inter' = [inter EXCEPT ![i] =
                               [Issue(r, "reply", <<"denied">>) EXCEPT !.pc = "deny"]]
              ELSE inter' = [inter EXCEPT ![i] =
                               [Issue(r, "reply", <<"panel_created">>)
                                  EXCEPT !.pc = "ack"]]
  /\ UNCHANGED <<config, channels, nextId, files, failures>>

\* await interaction.reply(denial) returns; a failure reaches the handler's catch.
DenyReturns(i) ==
  /\ inter[i].pc = "deny"
  /\ \E ok \in Outcomes :
       /\ failures' = IF ok THEN failures ELSE failures + 1
       /\ LET r == Settle(inter[i], ok) IN
            inter' = [inter EXCEPT ![i] =
                        IF ok THEN [r EXCEPT !.replied = TRUE, !.pc = "done"]
                        ELSE handlerCatch(r)]
  /\ UNCHANGED <<config, channels, nextId, files>>

\* await interaction.reply(acknowledgement) returns: the panel is sent to the
\* invoking channel (the promise of the send is returned); a failure reaches
\* the handler's catch.
AckReturns(i) ==
  /\ inter[i].pc = "ack"
  /\ \E ok \in Outcomes :
       /\ failures' = IF ok THEN failures ELSE failures + 1
       /\ LET r == Settle(inter[i], ok) IN
            inter' = [inter EXCEPT ![i] =
                        IF ok
                        THEN [Issue([r EXCEPT !.replied = TRUE], "channel.send",
                                    <<"panel", r.kind>>) EXCEPT !.pc = "panel"]
                        ELSE handlerCatch(r)]
  /\ UNCHANGED <<config, channels, nextId, files>>

\* The returned promise of interaction.channel.send(panel) settles: the panel
\* is a message of the channel; a rejection leaves the handler unhandled.
PanelSendReturns(i) ==
  /\ inter[i].pc = "panel"
  /\ \E ok \in OutcomesOn(inter[i].channel) :
       /\ Count(ok, inter[i].channel)
       /\ channels' =
            IF ok
            THEN [channels EXCEPT ![inter[i].channel].messages =
                    Append(@, Message(Len(@) + 1, "bot#0", inter[i].kind, FALSE))]
            ELSE channels
       /\ Unhandled(i, [Settle(inter[i], ok) EXCEPT !.pc = "done"], ~ok)
  /\ UNCHANGED <<config, nextId, files>>

\* A message arrives.  Messages outside a guild, of bots or without the prefix
\* are ignored; clear, ban and kick run when `allow` holds, ban and kick ask
\* for a mention when there is none.
MessageReceived(i) ==
  /\ Fresh(i)
  /\ \/ \E why \in {"no guild", "bot", "no prefix"} :
          inter' = [inter EXCEPT ![i] =
                      [@ EXCEPT !.kind = "message", !.cmd = why, !.pc = "done"]]
     \/ \E cmd \in {"clear", "ban", "kick", "other"}, who \in Callers,
           mention \in BOOLEAN :
          LET r == [inter[i] EXCEPT !.kind = "message", !.cmd = cmd, !.user = who[1],
                                    !.manage = who[2], !.mention = mention,
                                    !.channel = 2]
              ok == allow(r.manage, r.user.id)
          IN  /\ cmd \in {"clear", "other"} => ~mention
              /\ cmd = "other" => ~who[2]
              /\ inter' = [inter EXCEPT ![i] =
                   IF cmd = "clear" /\ ok
                   THEN [Issue(r, "bulkDelete", << >>) EXCEPT !.pc = "bulk"]
                   ELSE IF cmd \in {"ban", "kick"} /\ ok
                   THEN IF ~mention
                        THEN [Issue(r, "message.reply", <<"mention">>)
                                EXCEPT !.pc = "edit"]
                        ELSE [Issue(r, cmd, << >>) EXCEPT !.pc = "moderate"]
                   ELSE [r EXCEPT !.pc = "done"]]
  /\ UNCHANGED <<config, channels, nextId, files, failures>>

\* await message.channel.bulkDelete(...).catch(() => {}) returns: the
\* confirmation is sent.
BulkDeleteReturns(i) ==
  /\ inter[i].pc = "bulk"
  /\ \E ok \in Outcomes :
       /\ failures' = IF ok THEN failures ELSE failures + 1
       /\ inter' = [inter EXCEPT ![i] =
             [Issue(Settle(@, ok), "channel.send", <<"cleared">>)
                EXCEPT !.pc = "confirm"]]
  /\ UNCHANGED <<config, channels, nextId, files>>

\* await message.channel.send(confirmation) returns: a 3000 ms timer is set
\* to delete it; the await is in no try block, so a failure is unhandled.
ConfirmReturns(i) ==
  /\ inter[i].pc = "confirm"
  /\ \E ok \in Outcomes :
       /\ failures' = IF ok THEN failures ELSE failures + 1
       /\ Unhandled(i, [Settle(inter[i], ok) EXCEPT
                           !.pc = IF ok THEN "confirm_timer" ELSE "done"], ~ok)
  /\ UNCHANGED <<config, channels, nextId, files>>

\* The timer fires: m.delete().catch(() => {}), whose outcome nobody reads.
ConfirmTimerFires(i) ==
  /\ inter[i].pc = "confirm_timer"
  /\ inter' = [inter EXCEPT ![i] =
        [@ EXCEPT !.pc = "done",
                  !.calls = Append(@, [op |-> "m.delete", arg |-> << >>,
                                       res |-> "unobserved"])]]
  /\ UNCHANGED <<config, channels, nextId, files, failures>>

\* await member.ban(...) / member.kick() returns.  On success the handler
\* sends its confirmation without awaiting it; on failure the catch callback
\* replies first, and that reply is awaited with the chain.
ModerationReturns(i) ==
  /\ inter[i].pc = "moderate"
  /\ \E ok \in Outcomes :
       /\ failures' = IF ok THEN failures ELSE failures + 1
       /\ LET r == Settle(inter[i], ok) IN
            inter' = [inter EXCEPT ![i] =
              IF ok
              THEN [r EXCEPT !.pc = "done",
                             !.calls = Append(@, [op |-> "message.reply",
                                                  arg |-> <<"done">>,
                                                  res |-> "unobserved"])]
              ELSE [Issue(r, "message.reply", <<"failed">>) EXCEPT !.pc = "failed"]]
  /\ UNCHANGED <<config, channels, nextId, files>>

\* The reply of the catch callback settles: then the confirmation is sent all
\* the same; a rejection of the reply leaves the handler unhandled.
FailedReplyReturns(i) ==
  /\ inter[i].pc = "failed"
  /\ \E ok \in Outcomes :
       /\ failures' = IF ok THEN failures ELSE failures + 1
       /\ LET r == Settle(inter[i], ok) IN
            Unhandled(i,
              IF ok
              THEN [r EXCEPT !.pc = "done",
                             !.calls = Append(@, [op |-> "message.reply",
                                                  arg |-> <<"done">>,
                                                  res |-> "unobserved"])]
              ELSE [r EXCEPT !.pc = "done"], ~ok)
  /\ UNCHANGED <<config, channels, nextId, files>>

\* The guild holds the log channel and the channel the commands are typed in;
\* config.admins lists user u1, or is no array.
InitCommands ==
  /\ config \in {[logChannel |-> LogChannelId, admins |-> a,
                  handlersRole |-> NoArray, verifyRole |-> None] :
                   a \in {Array(<<"u1">>), NoArray}}
  /\ channels = [c \in {LogChannelId, 2} |->
                   [name |-> IF c = 2 THEN <<"general">> ELSE <<"logs">>,
                    messages |-> << >>]]
  /\ nextId = 3
  /\ files = << >>
  /\ inter = [i \in Interactions |-> Undelivered]
  /\ failures = 0

NextCommands ==
  \E i \in Interactions :
    \/ CommandReceived(i)
    \/ DenyReturns(i)
    \/ AckReturns(i)
    \/ PanelSendReturns(i)
    \/ EditReplyReturns(i)
    \/ CatchReplyReturns(i)
    \/ MessageReceived(i)
    \/ BulkDeleteReturns(i)
    \/ ConfirmReturns(i)
    \/ ConfirmTimerFires(i)
    \/ ModerationReturns(i)
    \/ FailedReplyReturns(i)

SpecCommands == InitCommands /\ [][NextCommands]_vars

(* ---------------------------- the verify button --------------------- *)

\* interaction.member of a press of the verify button: a cached member with or
\* without the verify role, or a raw API member.
Members == {"verified", "unverified", "raw"}

\* A press of the verify button arrives: the handler issues deferReply.
VerifyPressed(i) ==
  /\ Fresh(i)
  /\ \E u \in Users, m \in Members :
       inter' = [inter EXCEPT ![i] =
                   [Issue(@, "deferReply", << >>) EXCEPT
                      !.pc = "defer", !.kind = "verify_button", !.user = u,
                      !.member = m, !.channel = 2]]
  /\ UNCHANGED <<config, channels, nextId, files, failures>>

\* await member.roles.add(roleId).catch(() => {}) returns: whatever the outcome,
\* the edit that announces the role is issued and its promise returned.
RolesAddReturns(i) ==
  /\ inter[i].pc = "roles"
  /\ \E ok \in Outcomes :
       /\ failures' = IF ok THEN failures ELSE failures + 1
       /\ inter' = [inter EXCEPT ![i] =
             [Issue(Settle(@, ok), "editReply", <<"granted">>) EXCEPT !.pc = "edit"]]
  /\ UNCHANGED <<config, channels, nextId, files>>

\* config.verifyRole is set or missing; the guild holds the log channel and the
\* channel of the verify panel.
InitVerify ==
  /\ config \in {[logChannel |-> LogChannelId, admins |-> Array(<<"u1">>),
                  handlersRole |-> NoArray, verifyRole |-> v] :
                   v \in {None, "role"}}
  /\ channels = [c \in {LogChannelId, 2} |->
                   [name |-> IF c = 2 THEN <<"general">> ELSE <<"logs">>,
                    messages |-> << >>]]
  /\ nextId = 3
  /\ files = << >>
  /\ inter = [i \in Interactions |-> Undelivered]
  /\ failures = 0

NextVerify ==
  \E i \in Interactions :
    \/ VerifyPressed(i)
    \/ DeferReplyReturns(i)
    \/ RolesAddReturns(i)
    \/ EditReplyReturns(i)
    \/ CatchReplyReturns(i)

SpecVerify == InitVerify /\ [][NextVerify]_vars

(* ------------------ opening tickets with handler roles --------------- *)

\* The sequences of at most n elements of S.
RECURSIVE Lists(_, _)
Lists(S, n) ==
  IF n = 0 THEN { << >> }
  ELSE Lists(S, n - 1) \cup
       { Append(l, x) : l \in {l \in Lists(S, n - 1) : Len(l) = n - 1}, x \in S }

\* The values of config.handlersRole: missing, one role id, a list of role ids
\* (the empty list included).
HandlerRoles ==
  {NoArray} \cup {RoleId(x) : x \in {"r1", "r2"}}
            \cup {Array(l) : l \in Lists({"r1", "r2"}, MaxRoles)}

\* A guild without tickets, under every configuration of the handler roles.
InitOverwrites ==
  /\ config \in {[logChannel |-> LogChannelId, admins |-> Array(<<"u1">>),
                  handlersRole |-> h, verifyRole |-> None] : h \in HandlerRoles}
  /\ channels = [c \in {LogChannelId, 2} |->
                   [name |-> IF c = 2 THEN <<"general">> ELSE <<"logs">>,
                    messages |-> << >>]]
  /\ nextId = 3
  /\ files = << >>
  /\ inter = [i \in Interactions |-> Undelivered]
  /\ failures = 0

NextOverwrites ==
  \E i \in Interactions :
    \/ OpenTicketPressed(i)
    \/ DeferReplyReturns(i)
    \/ ChannelsCreateReturns(i)
    \/ ChSendReturns(i)
    \/ EditReplyReturns(i)
    \/ CatchReplyReturns(i)

SpecOverwrites == InitOverwrites /\ [][NextOverwrites]_vars

(* --------------------- the specification of safeReply ---------------- *)

\* A caller holding interaction i calls safeReply(interaction, options).
SafeReplyCalled(i) ==
  /\ inter[i].pc = "ready"
  /\ Len(inter[i].calls) < MaxReplies
  /\ \E options \in {<<"x">>, <<"y">>} :
       inter' = [inter EXCEPT ![i] = safeReply(@, options)]
  /\ UNCHANGED <<config, channels, nextId, files, failures>>

\* The awaited reply / editReply of safeReply returns: a success marks the
\* interaction replied; a failure is swallowed and marks nothing.
SafeReplyReturns(i) ==
  /\ inter[i].pc \in {"safe_reply", "safe_edit"}
  /\ \E ok \in Outcomes :
       /\ failures' = IF ok THEN failures ELSE failures + 1
       /\ inter' = [inter EXCEPT ![i] =
             [Settle(@, ok) EXCEPT !.pc = "ready",
                                   !.replied = IF ok THEN TRUE ELSE @]]
  /\ UNCHANGED <<config, channels, nextId, files>>

\* Interactions that were handed to callers of safeReply: unanswered, or
\* already deferred.
InitReply ==
  /\ config = [logChannel |-> 0, admins |-> NoArray,
               handlersRole |-> NoArray, verifyRole |-> None]
  /\ channels = << >>
  /\ nextId = 1
  /\ files = << >>
  /\ inter \in [Interactions ->
                  { [Undelivered EXCEPT !.pc = "ready", !.kind = "safeReply",
                                        !.deferred = d] : d \in BOOLEAN }]
  /\ failures = 0

NextReply == \E i \in Interactions : SafeReplyCalled(i) \/ SafeReplyReturns(i)

SpecReply == InitReply /\ [][NextReply]_vars

(* ------------------- the specification of the transcript ------------- *)

\* Closing a ticket of an earlier run, whatever its history: the inputs of the
\* transcript are drawn from every history of at most MaxHistory user messages.
\* No failure is injected here (the budget starts used up); a call on the
\* channel still fails once another close has deleted it.
InitTranscript ==
  /\ config = [logChannel |-> LogChannelId, admins |-> Array(<<"u1">>),
               handlersRole |-> NoArray, verifyRole |-> None]
  /\ \E h \in Histories(MaxHistory) :
       channels = [c \in {LogChannelId, 2} |->
                     IF c = 2 THEN [name |-> <<"ticket-", "a">>, messages |-> h]
                     ELSE [name |-> <<"logs">>, messages |-> << >>]]
  /\ nextId = 3
  /\ files = << >>
  /\ inter = [i \in Interactions |-> Undelivered]
  /\ failures = MaxFailures

NextTranscript ==
  \E i \in Interactions :
    \/ CloseTicketPressed(i)
    \/ DeferReplyReturns(i)
    \/ NoticeReturns(i)
    \/ TimerFires(i)
    \/ FetchReturns(i)
    \/ LogSendReturns(i)
    \/ DeleteReturns(i)
    \/ DeleteCatchReturns(i)

SpecTranscript == InitTranscript /\ [][NextTranscript]_vars

(* ======================= the claims: definitions ===================== *)

IsOpen(i) == inter[i].kind \in {"ticket_menu", "ticket_button"}
IsClose(i) == inter[i].kind = "close_ticket"
Done(i) == inter[i].pc = "done"

\* The positions in interaction i's call log that hold a call named in ops.
CallsOf(i, ops) == { k \in 1..Len(inter[i].calls) : inter[i].calls[k].op \in ops }

\* No call of interaction i failed.
AllSucceeded(i) ==
  \A k \in 1..Len(inter[i].calls) : inter[i].calls[k].res \in {"ok", "unobserved"}

LastCall(i) == inter[i].calls[Len(inter[i].calls)]

\* ticket-<lowercased U>: the derived name of user u's ticket.
DerivedName(u) == <<"ticket-">> \o toLowerCase(u.username)

\* The channels the guild held at i's duplicate check that were named n,
\* exactly / when lowercased.
NamedAtCheck(i, n) == { c \in DOMAIN inter[i].snap : inter[i].snap[c] = n }
MatchingAtCheck(i, n) == { c \in DOMAIN inter[i].snap : toLowerCase(inter[i].snap[c]) = n }

\* Interaction i created exactly one channel, named after its user, and its
\* last response is the success edit naming that channel.
OpenedTicket(i) ==
  /\ Cardinality(CallsOf(i, {"create"})) = 1
  /\ \A k \in CallsOf(i, {"create"}) :
       inter[i].calls[k].arg = DerivedName(inter[i].user) /\ inter[i].calls[k].res = "ok"
  /\ inter[i].ch # 0
  /\ LastCall(i).op = "editReply"
  /\ LastCall(i).arg = <<"created", inter[i].ch>>

(* ------------------------------- C1 ---------------------------------- *)

\* C1 as stated: an open request handled with every platform call succeeding,
\* in a guild that held no channel named exactly ticket-<lowercased U> when
\* the duplicate check ran, creates exactly one channel of that name and ends
\* with the success message naming it.
C1_AsStated ==
  \A i \in Interactions :
    ( /\ IsOpen(i) /\ Done(i) /\ AllSucceeded(i)
      /\ NamedAtCheck(i, DerivedName(inter[i].user)) = {} )
    => OpenedTicket(i)

\* C1 (amended): an open request handled with every platform call succeeding,
\* in a guild that held no channel whose lowercased name is
\* ticket-<lowercased U> when the duplicate check ran, creates exactly one
\* channel, named ticket-<lowercased U>, and ends with the success message
\* naming it.
C1_OpenCreatesOne ==
  \A i \in Interactions :
    ( /\ IsOpen(i) /\ Done(i) /\ AllSucceeded(i)
      /\ MatchingAtCheck(i, DerivedName(inter[i].user)) = {} )
    => OpenedTicket(i)

\* A request by a user with an upper-case name was handled to its end, every
\* call succeeding, with no matching channel at its check.
C1_Witness ==
  \E i \in Interactions :
    /\ IsOpen(i) /\ Done(i) /\ AllSucceeded(i) /\ inter[i].checked
    /\ inter[i].user.username = <<"A">>
    /\ MatchingAtCheck(i, DerivedName(inter[i].user)) = {}
    /\ inter[i].ch \in DOMAIN channels

(* ------------------------------- C2 ---------------------------------- *)

\* C2: when a channel whose lowercased name is ticket-<lowercased U> exists at
\* the duplicate check, the open request never calls channel creation and its
\* response is an edit naming one of those existing channels.
C2_DuplicateRefused ==
  \A i \in Interactions :
    ( /\ IsOpen(i) /\ inter[i].checked
      /\ MatchingAtCheck(i, DerivedName(inter[i].user)) # {} )
    => /\ CallsOf(i, {"create", "send", "reply"}) = {}
       /\ Len(inter[i].calls) = 2
       /\ LastCall(i).op = "editReply"
       /\ Len(LastCall(i).arg) = 2
       /\ LastCall(i).arg[1] = "existing"
       /\ LastCall(i).arg[2] \in MatchingAtCheck(i, DerivedName(inter[i].user))

\* A request was refused because of a channel whose name matches only when
\* lowercased, and the edit naming it went through.
C2_Witness ==
  \E i \in Interactions :
    /\ IsOpen(i) /\ Done(i) /\ inter[i].checked /\ AllSucceeded(i)
    /\ \E c \in MatchingAtCheck(i, DerivedName(inter[i].user)) :
         inter[i].snap[c] # DerivedName(inter[i].user)

(* ------------------------------- C3 ---------------------------------- *)

\* The channels of the guild that are some user's ticket, by derived name.
TicketChannels ==
  { c \in DOMAIN channels :
      \E u \in Users : toLowerCase(channels[c].name) = DerivedName(u) }

\* C3: in every reachable state the guild holds at most one ticket channel per
\* derived name.
C3_AtMostOnePerName ==
  \A c, d \in TicketChannels :
    toLowerCase(channels[c].name) = toLowerCase(channels[d].name) => c = d

(* ------------------------------- C4 ---------------------------------- *)

\* Interactions i and j each created a channel, and both channels are in the
\* guild under the same name.
Duplicates(i, j) ==
  /\ i # j /\ inter[i].ch # 0 /\ inter[j].ch # 0
  /\ inter[i].ch \in DOMAIN channels /\ inter[j].ch \in DOMAIN channels
  /\ channels[inter[i].ch].name = channels[inter[j].ch].name

\* C4: there is no lock between the duplicate check and the creation; two
\* channels created under one name coexist exactly through that window: each
\* request ran its duplicate check before the other's creation completed.
C4_DuplicatesOnlyByRace ==
  \A i, j \in Interactions :
    Duplicates(i, j) =>
      /\ inter[j].ch \notin DOMAIN inter[i].snap
      /\ inter[i].ch \notin DOMAIN inter[j].snap

\* Two requests of the same user both passed the check before either channel
\* existed, both created one, and the two channels share their name.
C4_Witness ==
  \E i, j \in Interactions :
    /\ Duplicates(i, j)
    /\ inter[i].user = inter[j].user
    /\ MatchingAtCheck(i, DerivedName(inter[i].user)) = {}
    /\ MatchingAtCheck(j, DerivedName(inter[j].user)) = {}

(* ------------------------------- C5 ---------------------------------- *)

\* C5: whenever a close has invoked channel deletion, its timer had fired, and
\* its deferReply and its "closing" notice were issued, in that order, before
\* the deletion.
C5_NoticeBeforeDelete ==
  \A i \in Interactions :
    \A k \in CallsOf(i, {"delete"}) :
      /\ inter[i].fired
      /\ \E d, n \in 1..(k - 1) :
           /\ d < n
           /\ inter[i].calls[d].op = "deferReply"
           /\ inter[i].calls[n].op = "editReply"
           /\ inter[i].calls[n].arg = <<"closing">>

\* A close has deleted its channel.
C5_Witness ==
  \E i \in Interactions :
    /\ IsClose(i)
    /\ \E k \in CallsOf(i, {"delete"}) : inter[i].calls[k].res = "ok"
    /\ inter[i].channel \notin DOMAIN channels

(* ------------------------------- C6 ---------------------------------- *)

\* C6: a close whose timer fired invokes channel deletion exactly once, whatever
\* step of the transcript sequence succeeds or throws.
C6_DeleteExactlyOnce ==
  \A i \in Interactions :
    (IsClose(i) /\ inter[i].fired /\ Done(i)) =>
      Cardinality(CallsOf(i, {"delete"})) = 1

(* ------------------------------- C9 ---------------------------------- *)

\* C9: on every path at most one initial response (reply or deferReply) is
\* issued for an interaction, and an edit is issued only after one.
C9_OneInitialResponse ==
  \A i \in Interactions :
    /\ Cardinality(CallsOf(i, {"reply", "deferReply"})) <= 1
    /\ \A k \in CallsOf(i, {"editReply"}) :
         \E j \in CallsOf(i, {"reply", "deferReply"}) : j < k

(* ------------------------------- C7 ---------------------------------- *)

\* The line the transcript holds for message m: its timestamp, its author and
\* its content, or the placeholder when the content is empty.
ExpectedLine(m) ==
  [ stamp |-> <<"iso", m.createdTimestamp>>, author |-> m.tag,
    text |-> IF m.content = "" THEN "[embed/attachment]" ELSE m.content ]

\* Interaction i has written its transcript and the file is still there.
Written(i) ==
  /\ IsClose(i) /\ inter[i].pc \in {"logsend", "delete"}
  /\ inter[i].channel \in DOMAIN files

\* C7: the fetch returns the messages newest first, and the transcript written
\* at close holds one line per fetched message, oldest first: line k is the
\* line of the k-th message from the end of what the fetch returned.
C7_TranscriptOldestFirst ==
  \A i \in Interactions :
    Written(i) =>
      LET msgs == inter[i].msgs
          text == files[inter[i].channel]
          n == Len(msgs)
      IN  /\ n <= FetchLimit
          /\ \A k \in 1..(n - 1) :
               msgs[k].createdTimestamp > msgs[k + 1].createdTimestamp
          /\ Len(text) = n
          /\ \A k \in 1..n : text[k] = ExpectedLine(msgs[n + 1 - k])

\* A transcript of three messages was written, one of them without content.
C7_Witness ==
  \E i \in Interactions :
    /\ Written(i)
    /\ Len(inter[i].msgs) = 3
    /\ inter[i].msgs[1].createdTimestamp = 3
    /\ files[inter[i].channel][1].stamp = <<"iso", 1>>
    /\ \E k \in 1..3 : files[inter[i].channel][k].text = "[embed/attachment]"

(* ------------------------------- C8 ---------------------------------- *)

\* C8: two calls of safeReply, one after the other, on an interaction that was
\* unanswered reach the platform as exactly one reply and one editReply,
\* whether or not the first call fails.
C8_OneReplyOneEdit ==
  \A i \in Interactions :
    ( /\ inter[i].kind = "safeReply" /\ ~inter[i].deferred
      /\ inter[i].pc = "ready" /\ Len(inter[i].calls) = 2 )
    => /\ Cardinality(CallsOf(i, {"reply"})) = 1
       /\ Cardinality(CallsOf(i, {"editReply"})) = 1

(* ------------------------------- C10 --------------------------------- *)

\* The caller of event i is in the configured admin list or has the manage
\* permission.
Privileged(i) ==
  \/ inter[i].manage
  \/ /\ config.admins.isArray
     /\ \E k \in 1..Len(config.admins.items) : config.admins.items[k] = inter[i].user.id

IsSetup(i) == inter[i].kind \in {"setup_ticket", "verify_setup"}
IsPrefix(i) == inter[i].kind = "message" /\ inter[i].cmd \in {"clear", "ban", "kick"}

\* Event i sent its panel to the invoking channel / ran its moderation call.
PanelSent(i) ==
  \E k \in CallsOf(i, {"channel.send"}) : inter[i].calls[k].arg = <<"panel", inter[i].kind>>
Moderated(i) == CallsOf(i, {"bulkDelete", "ban", "kick"}) # {}

Failed(i, ops) == \E k \in CallsOf(i, ops) : inter[i].calls[k].res = "fail"

\* Interaction i issued the success edit.
SaidCreated(i) ==
  \E k \in CallsOf(i, {"editReply"}) :
    Len(inter[i].calls[k].arg) = 2 /\ inter[i].calls[k].arg[1] = "created"

\* C11: when the channel creation, the intro post or the log-sink send of an
\* open request failed, the handler ends with the generic failure message (an
\* edit for a deferred interaction, a reply otherwise) and never issued the
\* success message; when the creation failed the request created no channel.
C11_FailureReported ==
  \A i \in Interactions :
    (IsOpen(i) /\ Done(i) /\ Failed(i, {"create", "send", "log.send"})) =>
      /\ LastCall(i).arg = <<"error_ticket">>
      /\ LastCall(i).op = IF inter[i].deferred THEN "editReply" ELSE "reply"
      /\ ~SaidCreated(i)
      /\ Failed(i, {"create"}) => inter[i].ch = 0

(* ------------------------------- C12 --------------------------------- *)

\* C12: no failure of a platform call leaves a handler as an unhandled
\* rejection, and no handler is lost with the process.
C12_NoUnhandledRejection ==
  \A i \in Interactions : ~inter[i].unhandled /\ inter[i].pc # "lost"

(* ------------------------------- C13 --------------------------------- *)

\* The handler's catch block ran for interaction i.
Caught(i) == inter[i].caught # 0

\* Interaction i had been replied to or deferred when its catch block ran.
AckedWhenCaught(i) ==
  \E k \in 1..inter[i].caught :
    inter[i].calls[k].op \in {"reply", "deferReply"} /\ inter[i].calls[k].res = "ok"

\* The generic failure replies issued for interaction i.
ErrorReplies(i) == { k \in CallsOf(i, {"reply"}) : inter[i].calls[k].arg = <<"error">> }

\* C13: when the handler's catch block runs for an interaction that is neither
\* replied to nor deferred, exactly one generic failure reply is issued, and it
\* is the only call the catch block makes; when the interaction is replied to
\* or deferred, the catch block issues no call at all.
C13_CatchRepliesOnce ==
  \A i \in Interactions :
    /\ ErrorReplies(i) # {} => Caught(i)
    /\ Caught(i) =>
         IF AckedWhenCaught(i)
         THEN Len(inter[i].calls) = inter[i].caught /\ ErrorReplies(i) = {}
         ELSE /\ Len(inter[i].calls) = inter[i].caught + 1
              /\ ErrorReplies(i) = {inter[i].caught + 1}

\* One interaction was caught after its deferReply had succeeded and got
\* nothing more; another was caught with its deferReply failed and got the reply.
C13_Witness ==
  \E i, j \in Interactions :
    /\ Caught(i) /\ AckedWhenCaught(i) /\ Done(i) /\ inter[i].deferred
    /\ Caught(j) /\ ~AckedWhenCaught(j) /\ Done(j) /\ ErrorReplies(j) # {}

(* ------------------------------- C14 --------------------------------- *)

\* Close i was acknowledged, its notice settled and its timer was scheduled.
Scheduled(i) ==
  /\ IsClose(i)
  /\ \E k \in CallsOf(i, {"editReply"}) :
       inter[i].calls[k].arg = <<"closing">> /\ inter[i].calls[k].res # "pending"

\* C14: the delayed close cannot be cancelled: a close whose timer was scheduled
\* has invoked the channel deletion by the time nothing is left of it to run,
\* whatever was handled in between and whatever step of the transcript failed.
C14_CloseNotCancelled ==
  \A i \in Interactions :
    (Scheduled(i) /\ inter[i].pc \in {"done", "lost"}) => CallsOf(i, {"delete"}) # {}

(* ------------------------------- C15 --------------------------------- *)

\* Open request i was refused as a duplicate.
Refused(i) ==
  \E k \in CallsOf(i, {"editReply"}) :
    Len(inter[i].calls[k].arg) = 2 /\ inter[i].calls[k].arg[1] = "existing"

\* C15 as stated: an open request is refused exactly when the guild holds a
\* channel named ticket-<lowercased U> at the duplicate check.
C15_AsStated ==
  \A i \in Interactions :
    (IsOpen(i) /\ inter[i].checked) =>
      (Refused(i) <=> NamedAtCheck(i, DerivedName(inter[i].user)) # {})

\* C15 (amended): the lookup reads the guild's channels as they are when the
\* check runs: an open request is refused exactly when one of them has the
\* lowercased name ticket-<lowercased U>, the close grace window included, and
\* a request that finds none (the ticket was deleted, say) goes on to create a
\* channel of that name.
C15_LiveLookup ==
  \A i \in Interactions :
    (IsOpen(i) /\ inter[i].checked) =>
      /\ Refused(i) <=> MatchingAtCheck(i, DerivedName(inter[i].user)) # {}
      /\ ~Refused(i) =>
           /\ inter[i].calls[2].op = "create"
           /\ inter[i].calls[2].arg = DerivedName(inter[i].user)

\* The ticket of an earlier run was closed and deleted, and the next open
\* request under its name ran its check after that and created a new channel.
C15_Witness ==
  \E i, j \in Interactions :
    /\ IsClose(j) /\ inter[j].channel = 2 /\ 2 \notin DOMAIN channels
    /\ IsOpen(i) /\ inter[i].checked /\ 2 \notin DOMAIN inter[i].snap
    /\ DerivedName(inter[i].user) = <<"ticket-", "a">>
    /\ inter[i].ch \in DOMAIN channels
    /\ channels[inter[i].ch].name = <<"ticket-", "a">>

(* ------------------------------- C16 --------------------------------- *)

\* The intro post of open request i failed after its channel was created.
IntroFailed(i) ==
  /\ IsOpen(i) /\ inter[i].ch # 0
  /\ \E k \in CallsOf(i, {"send"}) : inter[i].calls[k].res = "fail"

\* The channel the refusal of open request j names.
Named(j) == LastCall(j).arg[2]

ConfiguredRoles == config.handlersRole.items

\* The entry that allows view and send to id / denies view to the guild.
AllowEntry(id) ==
  [id |-> <<id>>, allow |-> {"ViewChannel", "SendMessages"}, deny |-> {}]
DenyGuild == [id |-> <<"guild">>, allow |-> {}, deny |-> {"ViewChannel"}]

\* C17: under every configuration of the handler roles, the overwrites passed
\* to the channel creation are the entry denying view to the guild, the entry
\* allowing view and send to the requesting user and one entry allowing view and
\* send per configured role id, and nothing else.
C17_ExactOverwrites ==
  \A i \in Interactions :
    (IsOpen(i) /\ CallsOf(i, {"create"}) # {}) =>
      inter[i].overwrites =
        <<DenyGuild, AllowEntry(inter[i].user.id)>>
          \o [k \in 1..Len(ConfiguredRoles) |-> AllowEntry(ConfiguredRoles[k])]

(* ------------------------------- C18 --------------------------------- *)

\* Close i wrote the transcript of channel c and has not come to its end:
\* it is between the write and the removal, or was lost there with the process.
Holds(i, c) == IsClose(i) /\ inter[i].channel = c /\ inter[i].msgs # << >>

\* Close i tried to remove the transcript of channel c and unlinkSync threw
\* with the file there.
RemovalFailed(i, c) ==
  /\ IsClose(i) /\ inter[i].channel = c
  /\ \E k \in CallsOf(i, {"unlinkSync"}) :
       inter[i].calls[k].arg = <<"present">> /\ inter[i].calls[k].res = "fail"

OnlyClosesDelete(i) ==
  \A c \in DOMAIN inter[i].snap :
    c \notin DOMAIN channels =>
      \E j \in Interactions :
        /\ IsClose(j) /\ inter[j].channel = c
        /\ \E k \in CallsOf(j, {"delete"}) : inter[j].calls[k].res = "ok"

Deletions(c) ==
  UNION { { <<i, k>> : k \in CallsOf(i, {"delete"}) } :
            i \in { i \in Interactions : IsClose(i) /\ inter[i].channel = c } }
Deleted(c) == { p \in Deletions(c) : inter[p[1]].calls[p[2]].res = "ok" }

\* The channels that were ever in the guild.
Ids == 1..(nextId - 1)

=============================================================================
